---- MODULE Spec2Model ----
(***************************************************************************)
(* Model of the f1_data_pipeline DAG (src/f1.py): extract_data ->          *)
(* transform_data -> load_data_into_database, run by a scheduler that may  *)
(* have several DAG runs in flight against the same PostgreSQL database.   *)
(***************************************************************************)
EXTENDS Integers, Sequences, FiniteSets, TLC

(* ---------------------------------------------------------------- bounds *)
\* longest list of records one fetch returns
MaxRows == 2
\* DAG runs the scheduler starts in one behaviour
MaxRuns == 2
\* longest input list of the stand-alone transform_data call
MaxLenT == 2

\* the DAG runs that can be in flight at the same time
Slots == {1, 2}

(* ------------------------------------------------------------ data model *)
\* value of dict.get(k) when k is absent (Python None)
None == "None"

\* the six keys transform_data and the INSERT statement read
RowKeys == {"date", "session_key", "meeting_key", "driver_number",
            "pit_duration", "lap_number"}

\* a key the API may return that the pipeline does not use
ExtraKey == "pit_stop_id"

\* dict.get(key): the value, or None when the key is absent
Get(d, k) == IF k \in DOMAIN d THEN d[k] ELSE None

\* raw records of the pipeline runs: a complete record with an extra key,
\* and a record that lacks four of the six keys
RawFull == [k \in RowKeys \cup {ExtraKey} |->
              CASE k = "date" -> "2025-11-29T10:00:00"
                [] k = "session_key" -> "9158"
                [] k = "meeting_key" -> "100"
                [] k = "driver_number" -> "44"
                [] k = "pit_duration" -> "2.3"
                [] k = "lap_number" -> "12"
                [] OTHER -> "7"]
RawPartial == [k \in {"driver_number", "lap_number"} |->
                 IF k = "driver_number" THEN "16" ELSE "30"]
\* the pit stops of session 9158 as the API lists them: every run fetches the
\* same session (line 17), so a response body is a prefix of this feed
Feed(n) == [i \in 1..n |-> IF i % 2 = 1 THEN RawFull ELSE RawPartial]

RECURSIVE SeqsUpTo(_, _)
SeqsUpTo(S, n) ==
  IF n = 0 THEN {<<>>}
  ELSE LET shorter == SeqsUpTo(S, n - 1)
       IN shorter \cup {Append(s, x) : s \in {t \in shorter : Len(t) = n - 1}, x \in S}

(* ------------------------------------------------------------- extract *)
\* HTTP statuses the API answers with
Statuses == {200, 204, 404}

\* line 32: response.status_code == 200
StatusOkLax(status_code) == status_code \in 200..299
StatusOk(status_code) == status_code = 200

\* exceptions; code carries the HTTP status of the extract failure
NoExc == [type |-> "none", code |-> 0]
Exc(t) == [type |-> t, code |-> 0]
\* line 37: Exception(f"Failed to fetch F1 data: {response.status_code}")
FetchExc(status_code) == [type |-> "Exception", code |-> status_code]

(* ----------------------------------------------------------- transform *)
\* lines 45-52: the row built from one raw record
TransformRow(f1_data) == [k \in RowKeys |-> Get(f1_data, k)]

\* lines 40-55
RECURSIVE transform_data_skip(_)
transform_data_skip(f1_data_list) ==
  IF f1_data_list = <<>> THEN <<>>
  ELSE LET rest == transform_data_skip(Tail(f1_data_list))
       IN IF "date" \in DOMAIN Head(f1_data_list)
          THEN <<TransformRow(Head(f1_data_list))>> \o rest
          ELSE rest
transform_data(f1_data_list) ==
  [i \in 1..Len(f1_data_list) |-> TransformRow(f1_data_list[i])]

(* ---------------------------------------------------------------- load *)
\* values of os.environ.get('DATABASE_URL'): unset, empty, a URL
\* create_engine cannot parse, a well-formed URL
EnvValues == {None, "", "not-a-url", "postgresql://db/f1"}

\* line 64: not DATABASE_URL
UrlMissingNoneOnly(url) == url = None
UrlMissing(url) == url = None \/ url = ""

\* line 67: create_engine parses the URL and raises ArgumentError otherwise
UrlParses(url) == url = "postgresql://db/f1"

VARIABLES
  pc,                \* per slot: the line the run is at
  runId,             \* per slot: number of the DAG run occupying it
  runsStarted,       \* DAG runs started so far
  getCount,          \* per slot: requests.get calls of the run
  response,          \* per slot: status code of the response, 0 before
  f1_data,           \* per slot: return value of extract_data
  transformed_data,  \* per slot: return value of transform_data
  DATABASE_URL,      \* per slot: local of load_data_into_database
  engine,            \* per slot: "none" | "created" | "disposed"
  conn,              \* per slot: "none" | "open" | "closed"
  ddlPending,        \* per slot: CREATE TABLE executed, not yet committed
  pending,           \* per slot: rows inserted in the open transaction
  insert_count,      \* per slot: local of load_data_into_database
  reported,          \* per slot: count printed at line 119, -1 before
  exc,               \* per slot: exception in flight / raised to the caller
  logged,            \* per slot: line 122 printed the error
  dbError,           \* per slot: a database statement or commit failed
  trace,             \* per slot: statements sent over the connection
  tableExists,       \* database: f1_data is committed
  table,             \* database: committed rows of f1_data, in commit order
  nextId,            \* database: next value of the SERIAL sequence
  tIn, tOut, tpc     \* stand-alone transform_data call

vars == <<pc, runId, runsStarted, getCount, response, f1_data, transformed_data,
          DATABASE_URL, engine, conn, ddlPending, pending, insert_count,
          reported, exc, logged, dbError, trace, tableExists, table, nextId,
          tIn, tOut, tpc>>

pipeVars == <<pc, runId, runsStarted, getCount, response, f1_data, transformed_data,
              DATABASE_URL, engine, conn, ddlPending, pending, insert_count,
              reported, exc, logged, dbError, trace, tableExists, table, nextId>>
tVars == <<tIn, tOut, tpc>>

\* value of a local that is not bound yet
Unbound == "unbound"

\* bodies of a response that response.json() decodes: a JSON array of at
\* most MaxRows records
Bodies == {Feed(n) : n \in 0..MaxRows}

\* raw records of the stand-alone transform_data call: the key sets
TDomains ==
  {{}, RowKeys, RowKeys \cup {ExtraKey}, {ExtraKey}}
    \cup {{k} : k \in RowKeys}
    \cup {RowKeys \ {k} : k \in RowKeys}
\* and the values: two distinct payloads and JSON null
TVariants == {"a", "b", None}
TValue(k, v) == IF v = None THEN None ELSE k \o "=" \o v
RawRecordsT == {[k \in D |-> TValue(k, v)] : D \in TDomains, v \in TVariants}

(* ------------------------------------------------------------------ Init *)
PipeInit ==
  /\ pc = [r \in Slots |-> "idle"]
  /\ runId = [r \in Slots |-> 0]
  /\ runsStarted = 0
  /\ getCount = [r \in Slots |-> 0]
  /\ response = [r \in Slots |-> 0]
  /\ f1_data = [r \in Slots |-> <<>>]
  /\ transformed_data = [r \in Slots |-> <<>>]
  /\ DATABASE_URL = [r \in Slots |-> Unbound]
  /\ engine = [r \in Slots |-> "none"]
  /\ conn = [r \in Slots |-> "none"]
  /\ ddlPending = [r \in Slots |-> FALSE]
  /\ pending = [r \in Slots |-> <<>>]
  /\ insert_count = [r \in Slots |-> 0]
  /\ reported = [r \in Slots |-> -1]
  /\ exc = [r \in Slots |-> NoExc]
  /\ logged = [r \in Slots |-> FALSE]
  /\ dbError = [r \in Slots |-> FALSE]
  /\ trace = [r \in Slots |-> <<>>]
  /\ tableExists = FALSE
  /\ table = <<>>
  /\ nextId = 1

Init ==
  /\ PipeInit
  /\ tIn = <<>>
  /\ tOut = <<>>
  /\ tpc = "off"

(* ------------------------------------------------------------- scheduler *)
\* lines 19-24, 128-130: the scheduler starts a DAG run in the lowest free
\* slot (slots are interchangeable)
StartRun(r) ==
  /\ pc[r] \in {"idle", "done"}
  /\ \A o \in Slots : o < r => pc[o] \notin {"idle", "done"}
  /\ runsStarted < MaxRuns
  /\ runsStarted' = runsStarted + 1
  /\ runId' = [runId EXCEPT ![r] = runsStarted + 1]
  /\ pc' = [pc EXCEPT ![r] = "extract"]
  /\ getCount' = [getCount EXCEPT ![r] = 0]
  /\ response' = [response EXCEPT ![r] = 0]
  /\ f1_data' = [f1_data EXCEPT ![r] = <<>>]
  /\ transformed_data' = [transformed_data EXCEPT ![r] = <<>>]
  /\ DATABASE_URL' = [DATABASE_URL EXCEPT ![r] = Unbound]
  /\ engine' = [engine EXCEPT ![r] = "none"]
  /\ conn' = [conn EXCEPT ![r] = "none"]
  /\ ddlPending' = [ddlPending EXCEPT ![r] = FALSE]
  /\ pending' = [pending EXCEPT ![r] = <<>>]
  /\ insert_count' = [insert_count EXCEPT ![r] = 0]
  /\ reported' = [reported EXCEPT ![r] = -1]
  /\ exc' = [exc EXCEPT ![r] = NoExc]
  /\ logged' = [logged EXCEPT ![r] = FALSE]
  /\ dbError' = [dbError EXCEPT ![r] = FALSE]
  /\ trace' = [trace EXCEPT ![r] = <<>>]
  /\ UNCHANGED <<tableExists, table, nextId, tVars>>

(* --------------------------------------------------------------- extract *)
\* line 30 raising: requests.get could not reach the API
ExtractUnreachable(r) ==
  /\ pc[r] = "extract"
  /\ getCount' = [getCount EXCEPT ![r] = @ + 1]
  /\ exc' = [exc EXCEPT ![r] = Exc("ConnectionError")]
  /\ pc' = [pc EXCEPT ![r] = "done"]
  /\ UNCHANGED <<runId, runsStarted, response, f1_data, transformed_data,
                 DATABASE_URL, engine, conn, ddlPending, pending, insert_count,
                 reported, logged, dbError, trace, tableExists, table, nextId,
                 tVars>>

\* lines 27-37
extract_data(r) ==
  /\ pc[r] = "extract"
  /\ \E status_code \in Statuses, decodes \in BOOLEAN, body \in Bodies :
       /\ getCount' = [getCount EXCEPT ![r] = @ + 1]
       /\ response' = [response EXCEPT ![r] = status_code]
       /\ IF StatusOk(status_code)
          THEN IF ~decodes
               THEN /\ exc' = [exc EXCEPT ![r] = Exc("JSONDecodeError")]
                    /\ pc' = [pc EXCEPT ![r] = "done"]
                    /\ UNCHANGED f1_data
               ELSE /\ f1_data' = [f1_data EXCEPT ![r] = body]
                    /\ pc' = [pc EXCEPT ![r] = "transform"]
                    /\ UNCHANGED exc
          ELSE /\ exc' = [exc EXCEPT ![r] = FetchExc(status_code)]
               /\ pc' = [pc EXCEPT ![r] = "done"]
               /\ UNCHANGED f1_data
  /\ UNCHANGED <<runId, runsStarted, transformed_data,
                 DATABASE_URL, engine, conn, ddlPending, pending, insert_count,
                 reported, logged, dbError, trace, tableExists, table, nextId,
                 tVars>>

(* ------------------------------------------------------------- transform *)
\* line 129: the transform task of a DAG run
TransformTask(r) ==
  /\ pc[r] = "transform"
  /\ transformed_data' = [transformed_data EXCEPT ![r] = transform_data(f1_data[r])]
  /\ pc' = [pc EXCEPT ![r] = "load"]
  /\ UNCHANGED <<runId, runsStarted, getCount, response, f1_data,
                 DATABASE_URL, engine, conn, ddlPending, pending, insert_count,
                 reported, exc, logged, dbError, trace, tableExists, table,
                 nextId, tVars>>

(* ------------------------------------------------------------------ load *)
loadFrame == <<runId, runsStarted, getCount, response, f1_data,
               transformed_data, tVars>>

\* a statement sent over the connection: what, the index of the row it
\* inserts (0 for the others), whether the database accepted it
Stmt(what, i, ok) == <<what, i, ok>>

\* lines 107-114: the bind parameters of one INSERT
InsertParams(data) == [k \in RowKeys |-> Get(data, k)]

\* lines 63-65
LoadGetEnv(r) ==
  /\ pc[r] = "load"
  /\ \E url \in EnvValues :
       /\ DATABASE_URL' = [DATABASE_URL EXCEPT ![r] = url]
       /\ IF UrlMissing(url)
          THEN /\ exc' = [exc EXCEPT ![r] = Exc("RuntimeError")]
               /\ pc' = [pc EXCEPT ![r] = "done"]
          ELSE /\ pc' = [pc EXCEPT ![r] = "create_engine"]
               /\ UNCHANGED exc
  /\ UNCHANGED <<loadFrame, engine, conn, ddlPending, pending, insert_count,
                 reported, logged, dbError, trace, tableExists, table, nextId>>

\* lines 67-78: the engine is created lazily, no connection is opened; a URL
\* that does not parse raises before the try block
CreateEngine(r) ==
  /\ pc[r] = "create_engine"
  /\ IF UrlParses(DATABASE_URL[r])
     THEN /\ engine' = [engine EXCEPT ![r] = "created"]
          /\ pc' = [pc EXCEPT ![r] = "connect"]
          /\ UNCHANGED exc
     ELSE /\ exc' = [exc EXCEPT ![r] = Exc("ArgumentError")]
          /\ pc' = [pc EXCEPT ![r] = "done"]
          /\ UNCHANGED engine
  /\ UNCHANGED <<loadFrame, DATABASE_URL, conn, ddlPending, pending,
                 insert_count, reported, logged, dbError, trace, tableExists,
                 table, nextId>>

\* line 81: engine.connect() opens the run's own connection
Connect(r) ==
  /\ pc[r] = "connect"
  /\ conn' = [conn EXCEPT ![r] = "open"]
  /\ pc' = [pc EXCEPT ![r] = "create_table"]
  /\ UNCHANGED <<loadFrame, DATABASE_URL, engine, ddlPending, pending,
                 insert_count, reported, exc, logged, dbError, trace,
                 tableExists, table, nextId>>

\* line 81 raising: the database is unreachable; no connection to close
ConnectFail(r) ==
  /\ pc[r] = "connect"
  /\ exc' = [exc EXCEPT ![r] = Exc("OperationalError")]
  /\ dbError' = [dbError EXCEPT ![r] = TRUE]
  /\ pc' = [pc EXCEPT ![r] = "except"]
  /\ UNCHANGED <<loadFrame, DATABASE_URL, engine, conn, ddlPending, pending,
                 insert_count, reported, logged, trace, tableExists, table,
                 nextId>>

\* lines 83-94: CREATE TABLE IF NOT EXISTS; a no-op when the table is
\* committed, otherwise the creation joins the open transaction. While another
\* transaction holds an uncommitted creation of the same table the statement
\* waits for it.
CreateTableSkipEmpty(r) ==
  /\ pc[r] = "create_table"
  /\ IF transformed_data[r] = <<>>
     THEN /\ pc' = [pc EXCEPT ![r] = "insert"]
          /\ UNCHANGED <<ddlPending, trace>>
     ELSE /\ tableExists \/ \A o \in Slots \ {r} : ~ddlPending[o]
          /\ ddlPending' = [ddlPending EXCEPT ![r] = ~tableExists]
          /\ trace' = [trace EXCEPT ![r] = Append(@, Stmt("CREATE", 0, TRUE))]
          /\ pc' = [pc EXCEPT ![r] = "commit_ddl"]
  /\ UNCHANGED <<loadFrame, DATABASE_URL, engine, conn, pending, insert_count,
                 reported, exc, logged, dbError, tableExists, table, nextId>>
CreateTable(r) ==
  /\ pc[r] = "create_table"
  /\ tableExists \/ \A o \in Slots \ {r} : ~ddlPending[o]
  /\ ddlPending' = [ddlPending EXCEPT ![r] = ~tableExists]
  /\ trace' = [trace EXCEPT ![r] = Append(@, Stmt("CREATE", 0, TRUE))]
  /\ pc' = [pc EXCEPT ![r] = "commit_ddl"]
  /\ UNCHANGED <<loadFrame, DATABASE_URL, engine, conn, pending, insert_count,
                 reported, exc, logged, dbError, tableExists, table, nextId>>

\* line 95: conn.commit() after the DDL
CommitDDL(r) ==
  /\ pc[r] = "commit_ddl"
  /\ tableExists' = (tableExists \/ ddlPending[r])
  /\ ddlPending' = [ddlPending EXCEPT ![r] = FALSE]
  /\ trace' = [trace EXCEPT ![r] = Append(@, Stmt("COMMIT", 0, TRUE))]
  /\ pc' = [pc EXCEPT ![r] = "insert"]
  /\ UNCHANGED <<loadFrame, DATABASE_URL, engine, conn, pending, insert_count,
                 reported, exc, logged, dbError, table, nextId>>

\* lines 101-116: one iteration of the loop; the database assigns the id
InsertAutocommit(r) ==
  /\ pc[r] = "insert"
  /\ insert_count[r] < Len(transformed_data[r])
  /\ LET i == insert_count[r] + 1
         row == [id |-> nextId, run |-> runId[r],
                 data |-> InsertParams(transformed_data[r][i])]
     IN /\ table' = Append(table, row)
        /\ trace' = [trace EXCEPT ![r] = Append(@, Stmt("INSERT", i, TRUE))]
  /\ nextId' = nextId + 1
  /\ insert_count' = [insert_count EXCEPT ![r] = @ + 1]
  /\ UNCHANGED <<loadFrame, pc, DATABASE_URL, engine, conn, ddlPending, pending,
                 reported, exc, logged, dbError, tableExists>>
InsertDedup(r) ==
  /\ pc[r] = "insert"
  /\ insert_count[r] < Len(transformed_data[r])
  /\ LET i == insert_count[r] + 1
         row == [id |-> nextId, run |-> runId[r],
                 data |-> InsertParams(transformed_data[r][i])]
         dup == \E j \in 1..Len(table) : table[j].data = row.data
     IN /\ pending' = [pending EXCEPT ![r] = IF dup THEN @ ELSE Append(@, row)]
        /\ trace' = [trace EXCEPT ![r] = Append(@, Stmt("INSERT", i, TRUE))]
  /\ nextId' = nextId + 1
  /\ insert_count' = [insert_count EXCEPT ![r] = @ + 1]
  /\ UNCHANGED <<loadFrame, pc, DATABASE_URL, engine, conn, ddlPending,
                 reported, exc, logged, dbError, tableExists, table>>
Insert(r) ==
  /\ pc[r] = "insert"
  /\ insert_count[r] < Len(transformed_data[r])
  /\ LET i == insert_count[r] + 1
         row == [id |-> nextId, run |-> runId[r],
                 data |-> InsertParams(transformed_data[r][i])]
     IN /\ pending' = [pending EXCEPT ![r] = Append(@, row)]
        /\ trace' = [trace EXCEPT ![r] = Append(@, Stmt("INSERT", i, TRUE))]
  /\ nextId' = nextId + 1
  /\ insert_count' = [insert_count EXCEPT ![r] = @ + 1]
  /\ UNCHANGED <<loadFrame, pc, DATABASE_URL, engine, conn, ddlPending,
                 reported, exc, logged, dbError, tableExists, table>>

\* lines 83 and 102 raising: the database rejects the CREATE TABLE or the
\* INSERT of the next row; control leaves the with block
StatementFailContinue(r) ==
  /\ \/ /\ pc[r] = "create_table"
        /\ trace' = [trace EXCEPT ![r] = Append(@, Stmt("CREATE", 0, FALSE))]
        /\ pc' = [pc EXCEPT ![r] = "with_exit"]
        /\ exc' = [exc EXCEPT ![r] = Exc("DatabaseError")]
        /\ UNCHANGED insert_count
     \/ /\ pc[r] = "insert"
        /\ insert_count[r] < Len(transformed_data[r])
        /\ trace' = [trace EXCEPT ![r] =
                       Append(@, Stmt("INSERT", insert_count[r] + 1, FALSE))]
        /\ insert_count' = [insert_count EXCEPT ![r] = @ + 1]
        /\ UNCHANGED <<pc, exc>>
  /\ dbError' = [dbError EXCEPT ![r] = TRUE]
  /\ UNCHANGED <<loadFrame, DATABASE_URL, engine, conn, ddlPending, pending,
                 reported, logged, tableExists, table, nextId>>
StatementFail(r) ==
  /\ \/ /\ pc[r] = "create_table"
        /\ trace' = [trace EXCEPT ![r] = Append(@, Stmt("CREATE", 0, FALSE))]
     \/ /\ pc[r] = "insert"
        /\ insert_count[r] < Len(transformed_data[r])
        /\ trace' = [trace EXCEPT ![r] =
                       Append(@, Stmt("INSERT", insert_count[r] + 1, FALSE))]
  /\ exc' = [exc EXCEPT ![r] = Exc("DatabaseError")]
  /\ dbError' = [dbError EXCEPT ![r] = TRUE]
  /\ pc' = [pc EXCEPT ![r] = "with_exit"]
  /\ UNCHANGED <<loadFrame, DATABASE_URL, engine, conn, ddlPending, pending,
                 insert_count, reported, logged, tableExists, table, nextId>>

\* lines 118-119: conn.commit() after the loop, then the count is printed
CommitInsertsReplace(r) ==
  /\ pc[r] = "insert"
  /\ insert_count[r] = Len(transformed_data[r])
  /\ table' = pending[r]
  /\ pending' = [pending EXCEPT ![r] = <<>>]
  /\ trace' = [trace EXCEPT ![r] = Append(@, Stmt("COMMIT", 0, TRUE))]
  /\ reported' = [reported EXCEPT ![r] = insert_count[r]]
  /\ pc' = [pc EXCEPT ![r] = "with_exit"]
  /\ UNCHANGED <<loadFrame, DATABASE_URL, engine, conn, ddlPending,
                 insert_count, exc, logged, dbError, tableExists, nextId>>
CommitInserts(r) ==
  /\ pc[r] = "insert"
  /\ insert_count[r] = Len(transformed_data[r])
  /\ table' = table \o pending[r]
  /\ pending' = [pending EXCEPT ![r] = <<>>]
  /\ trace' = [trace EXCEPT ![r] = Append(@, Stmt("COMMIT", 0, TRUE))]
  /\ reported' = [reported EXCEPT ![r] = insert_count[r]]
  /\ pc' = [pc EXCEPT ![r] = "with_exit"]
  /\ UNCHANGED <<loadFrame, DATABASE_URL, engine, conn, ddlPending,
                 insert_count, exc, logged, dbError, tableExists, nextId>>

\* lines 95 and 118 raising: the commit reports an error and the server
\* discards the transaction
CommitFail(r) ==
  /\ \/ pc[r] = "commit_ddl"
     \/ pc[r] = "insert" /\ insert_count[r] = Len(transformed_data[r])
  /\ ddlPending' = [ddlPending EXCEPT ![r] = FALSE]
  /\ pending' = [pending EXCEPT ![r] = <<>>]
  /\ trace' = [trace EXCEPT ![r] = Append(@, Stmt("COMMIT", 0, FALSE))]
  /\ exc' = [exc EXCEPT ![r] = Exc("DatabaseError")]
  /\ dbError' = [dbError EXCEPT ![r] = TRUE]
  /\ pc' = [pc EXCEPT ![r] = "with_exit"]
  /\ UNCHANGED <<loadFrame, DATABASE_URL, engine, conn, insert_count, reported,
                 logged, tableExists, table, nextId>>

\* line 81, leaving the with block: the connection is closed and whatever
\* its transaction has not committed is rolled back
WithExit(r) ==
  /\ pc[r] = "with_exit"
  /\ conn' = [conn EXCEPT ![r] = "closed"]
  /\ ddlPending' = [ddlPending EXCEPT ![r] = FALSE]
  /\ pending' = [pending EXCEPT ![r] = <<>>]
  /\ pc' = [pc EXCEPT ![r] = IF exc[r] = NoExc THEN "finally" ELSE "except"]
  /\ UNCHANGED <<loadFrame, DATABASE_URL, engine, insert_count, reported, exc,
                 logged, dbError, trace, tableExists, table, nextId>>

\* lines 121-123: print the error and re-raise it
ExceptSwallow(r) ==
  /\ pc[r] = "except"
  /\ logged' = [logged EXCEPT ![r] = TRUE]
  /\ exc' = [exc EXCEPT ![r] = NoExc]
  /\ pc' = [pc EXCEPT ![r] = "finally"]
  /\ UNCHANGED <<loadFrame, DATABASE_URL, engine, conn, ddlPending, pending,
                 insert_count, reported, dbError, trace, tableExists, table,
                 nextId>>
Except(r) ==
  /\ pc[r] = "except"
  /\ logged' = [logged EXCEPT ![r] = TRUE]
  /\ pc' = [pc EXCEPT ![r] = "finally"]
  /\ UNCHANGED <<loadFrame, DATABASE_URL, engine, conn, ddlPending, pending,
                 insert_count, reported, exc, dbError, trace, tableExists,
                 table, nextId>>

\* lines 124-125: engine.dispose(), then the task ends: it returns when no
\* exception is in flight and raises it to the scheduler otherwise
FinallyOnSuccess(r) ==
  /\ pc[r] = "finally"
  /\ engine' = [engine EXCEPT ![r] = IF exc[r] = NoExc THEN "disposed" ELSE @]
  /\ pc' = [pc EXCEPT ![r] = "done"]
  /\ UNCHANGED <<loadFrame, DATABASE_URL, conn, ddlPending, pending,
                 insert_count, reported, exc, logged, dbError, trace,
                 tableExists, table, nextId>>
Finally(r) ==
  /\ pc[r] = "finally"
  /\ engine' = [engine EXCEPT ![r] = "disposed"]
  /\ pc' = [pc EXCEPT ![r] = "done"]
  /\ UNCHANGED <<loadFrame, DATABASE_URL, conn, ddlPending, pending,
                 insert_count, reported, exc, logged, dbError, trace,
                 tableExists, table, nextId>>

(* ------------------------------------------------------------------ Next *)
Next ==
  \E r \in Slots :
    \/ StartRun(r)
    \/ ExtractUnreachable(r)
    \/ extract_data(r)
    \/ TransformTask(r)
    \/ LoadGetEnv(r)
    \/ CreateEngine(r)
    \/ Connect(r)
    \/ ConnectFail(r)
    \/ CreateTable(r)
    \/ CommitDDL(r)
    \/ Insert(r)
    \/ StatementFail(r)
    \/ CommitInserts(r)
    \/ CommitFail(r)
    \/ WithExit(r)
    \/ Except(r)
    \/ Finally(r)

Spec == Init /\ [][Next]_vars

(* --------------------------------------- stand-alone transform_data call *)
InitT ==
  /\ PipeInit
  /\ tIn \in SeqsUpTo(RawRecordsT, MaxLenT)
  /\ tOut = <<>>
  /\ tpc = "call"

\* lines 40-55: one call of transform_data on tIn
TransformCall ==
  /\ tpc = "call"
  /\ tOut' = transform_data(tIn)
  /\ tpc' = "returned"
  /\ UNCHANGED <<tIn, pipeVars>>

NextT == TransformCall

SpecT == InitT /\ [][NextT]_vars

(* ---------------------------------------------------------------- claims *)
Last(s) == s[Len(s)]
IsPrefix(s, t) == Len(s) <= Len(t) /\ \A i \in 1..Len(s) : s[i] = t[i]

\* the task of slot r has ended
Terminal(r) == pc[r] = "done"
\* load_data_into_database of slot r returned normally
LoadReturned(r) == pc[r] = "done" /\ exc[r] = NoExc

\* the committed rows the run in slot r inserted, in table order
RowsOf(r) == SelectSeq(table, LAMBDA row : row.run = runId[r])

\* the statements of a run over n rows in which nothing fails
IdealTrace(n) ==
  <<Stmt("CREATE", 0, TRUE), Stmt("COMMIT", 0, TRUE)>>
    \o [i \in 1..n |-> Stmt("INSERT", i, TRUE)]
    \o <<Stmt("COMMIT", 0, TRUE)>>

\* the last statement of slot r is an INSERT the database rejected
InsertFailed(r) ==
  /\ trace[r] # <<>>
  /\ Last(trace[r])[1] = "INSERT"
  /\ Last(trace[r])[3] = FALSE

\* C1: once an INSERT of a run has failed, no row that run inserted is in
\* f1_data, up to and including the end of the run, wherever the failing
\* INSERT stands in the list.
C1_FailedInsertCommitsNothing ==
  \A r \in Slots : InsertFailed(r) => RowsOf(r) = <<>>

\* a run ended after its second INSERT failed: the first row had been
\* inserted into the open transaction, and its id is spent
C1_Witness ==
  \E r \in Slots :
    /\ Terminal(r)
    /\ InsertFailed(r)
    /\ Last(trace[r])[2] = 2
    /\ tableExists
    /\ nextId > 1

\* C2: no task has ended with its connection open or its engine undisposed.
C2_ConnectionReleased ==
  \A r \in Slots : Terminal(r) => conn[r] # "open" /\ engine[r] # "created"

\* a run ended after the commit of its inserts failed, connection closed
C2_Witness ==
  \E r \in Slots :
    /\ Terminal(r)
    /\ trace[r] # <<>>
    /\ Last(trace[r]) = Stmt("COMMIT", 0, FALSE)
    /\ insert_count[r] > 0
    /\ conn[r] = "closed"
    /\ engine[r] = "disposed"

\* the error of line 65, which the specification calls ConfigError
ConfigError == Exc("RuntimeError")

\* C3: a run whose DATABASE_URL is unset or empty has ended with the
\* configuration error, with no engine, no connection and no statement.
C3_MissingUrlRaisesFirst ==
  \A r \in Slots :
    DATABASE_URL[r] \in {None, ""} =>
      /\ pc[r] = "done"
      /\ exc[r] = ConfigError
      /\ engine[r] = "none"
      /\ conn[r] = "none"
      /\ trace[r] = <<>>
      /\ RowsOf(r) = <<>>

\* a run with rows to load ended on an empty DATABASE_URL
C3_Witness ==
  \E r \in Slots :
    /\ DATABASE_URL[r] = ""
    /\ transformed_data[r] # <<>>
    /\ pc[r] = "done"

\* C4: a response whose status is not 200 ends extract_data with the
\* exception that carries the status, after exactly one GET, and no list is
\* handed on.
C4_Non200RaisesFetchError ==
  \A r \in Slots :
    /\ getCount[r] <= 1
    /\ response[r] \notin {0, 200} =>
         /\ pc[r] = "done"
         /\ exc[r] = FetchExc(response[r])
         /\ getCount[r] = 1
         /\ f1_data[r] = <<>>
         /\ transformed_data[r] = <<>>

\* a run ended on a 204 response
C4_Witness ==
  \E r \in Slots : response[r] = 204 /\ pc[r] = "done"

\* C5: transform_data returns one row per raw record, in order, with exactly
\* the six keys, each the record's value or None when the record lacks it.
C5_TransformMapsEveryRecord ==
  tpc = "returned" =>
    /\ Len(tOut) = Len(tIn)
    /\ \A i \in 1..Len(tIn) :
         /\ DOMAIN tOut[i] = RowKeys
         /\ \A k \in RowKeys :
              tOut[i][k] = IF k \in DOMAIN tIn[i] THEN tIn[i][k] ELSE None

\* a call on two different records, the first with a key outside the six
\* and without "date", the second missing a key as well
C5_Witness ==
  /\ tpc = "returned"
  /\ Len(tIn) = 2
  /\ tIn[1] # tIn[2]
  /\ ExtraKey \in DOMAIN tIn[1]
  /\ "date" \notin DOMAIN tIn[1]
  /\ ~(RowKeys \subseteq DOMAIN tIn[2])
  /\ DOMAIN tIn[2] # {}

\* C6: an existing table stays, the committed rows are only ever extended at
\* the end, and the commit of a run that succeeds adds exactly as many rows
\* as the run was given.
C6_AppendOnly ==
  [][/\ tableExists => tableExists'
     /\ IsPrefix(table, table')
     /\ \A r \in Slots :
          (pc[r] = "insert" /\ pc'[r] = "with_exit" /\ exc'[r] = NoExc) =>
            Len(table') = Len(table) + Len(transformed_data[r])]_vars

\* a run returned after appending its rows behind those of an earlier run
C6_Witness ==
  \E r \in Slots :
    /\ LoadReturned(r)
    /\ RowsOf(r) # <<>>
    /\ table[1].run < runId[r]
    /\ Last(table).run = runId[r]

\* C7: a load of the empty list sends no INSERT; when it returns it has
\* created and committed the table, committed once more, counted and
\* reported 0 rows and released the connection.
C7_EmptyListCreatesTableOnly ==
  \A r \in Slots :
    (transformed_data[r] = <<>> /\ pc[r] \notin {"idle", "extract", "transform"}) =>
      /\ insert_count[r] = 0
      /\ \A i \in 1..Len(trace[r]) : trace[r][i][1] # "INSERT"
      /\ LoadReturned(r) =>
           /\ trace[r] = IdealTrace(0)
           /\ tableExists
           /\ reported[r] = 0
           /\ RowsOf(r) = <<>>
           /\ conn[r] = "closed"
           /\ engine[r] = "disposed"

\* a load of the empty list returned
C7_Witness ==
  \E r \in Slots :
    /\ LoadReturned(r)
    /\ f1_data[r] = <<>>
    /\ transformed_data[r] = <<>>
    /\ reported[r] = 0

\* C8: a task that hit a database error ends with that exception raised,
\* after it was printed and after connection and engine were released, and
\* without the success report.
C8_DatabaseErrorPropagates ==
  \A r \in Slots :
    /\ (dbError[r] /\ Terminal(r)) =>
         /\ exc[r] \in {Exc("DatabaseError"), Exc("OperationalError")}
         /\ logged[r]
         /\ conn[r] # "open"
         /\ engine[r] = "disposed"
         /\ reported[r] = -1
    /\ (dbError[r] /\ pc[r] # "done") => exc[r] # NoExc

\* a run ended after its CREATE TABLE failed
C8_Witness ==
  \E r \in Slots :
    /\ Terminal(r)
    /\ dbError[r]
    /\ trace[r] = <<Stmt("CREATE", 0, FALSE)>>

\* C9: the statements of a run are a prefix of CREATE, COMMIT, one INSERT
\* per row in list order, COMMIT; a failed statement is the last one; the
\* rows of the open transaction are the first insert_count rows of the list.
C9_StatementOrder ==
  \A r \in Slots :
    LET n == Len(transformed_data[r])
        t == trace[r]
    IN /\ \/ IsPrefix(t, IdealTrace(n))
          \/ /\ t # <<>>
             /\ ~Last(t)[3]
             /\ IsPrefix([t EXCEPT ![Len(t)] = <<@[1], @[2], TRUE>>], IdealTrace(n))
             /\ pc[r] \in {"with_exit", "except", "finally", "done"}
       /\ t # <<>> => conn[r] # "none"
       /\ Len(pending[r]) <= insert_count[r]
       /\ \A i \in 1..Len(pending[r]) :
            pending[r][i].data = InsertParams(transformed_data[r][i])
       /\ (t # <<>> /\ Last(t) = Stmt("COMMIT", 0, TRUE) /\ Len(t) > 2) =>
            insert_count[r] = n

\* a run over two rows returned after all four statements and both commits
C9_Witness ==
  \E r \in Slots :
    /\ LoadReturned(r)
    /\ Len(transformed_data[r]) = 2
    /\ trace[r] = IdealTrace(2)

\* C10: a load that ended without a database error returned, and the table
\* holds one row per row of its list, in list order, whatever the other run
\* did meanwhile; ids are never shared between rows.
C10_ConcurrentRunsKeepAllRows ==
  /\ \A r \in Slots :
       (Terminal(r) /\ engine[r] = "disposed" /\ ~dbError[r]) =>
         /\ exc[r] = NoExc
         /\ Len(RowsOf(r)) = Len(transformed_data[r])
         /\ \A i \in 1..Len(RowsOf(r)) :
              RowsOf(r)[i].data = InsertParams(transformed_data[r][i])
  /\ \A i, j \in 1..Len(table) : table[i].id = table[j].id => i = j

\* both runs returned, their INSERTs interleaved (the ids of one run lie
\* around an id of the other), and one row's data is persisted twice
C10_Witness ==
  /\ \A r \in Slots : LoadReturned(r)
  /\ \E i, j, k \in 1..Len(table) :
       /\ table[i].run = table[k].run
       /\ table[i].run # table[j].run
       /\ table[i].id < table[j].id
       /\ table[j].id < table[k].id
  /\ \E i, j \in 1..Len(table) : i # j /\ table[i].data = table[j].data

====
